---------------------------- MODULE Spec2Model ----------------------------
(***************************************************************************)
(* Model of the notebook exercise_test_network.ipynb: the links table, the *)
(* multinomial-logit function mnl, the demand lookup, the congestion       *)
(* function travel_time and the ten-round iteration between probabilities, *)
(* volumes and congested times.                                            *)
(*                                                                         *)
(* Numbers.  The notebook computes with binary floating point (Python      *)
(* float, numpy.float64).  The model computes with binary floating point   *)
(* too: round-to-nearest-even, the exponent range of a double with its     *)
(* gradual underflow, infinities and NaN, but with a mantissa of P bits    *)
(* instead of 53: every result is the double's result rounded to P bits.   *)
(* A number is the record [k, s, m, e]: kind, sign, mantissa and exponent, *)
(* of value s * m * 2^e, with m < 2^P and either 2^(P-1) <= m or e the     *)
(* exponent -1074 of the double's smallest step.                           *)
(***************************************************************************)
EXTENDS Integers, Sequences, FiniteSets, TLC

\* Mantissa bits of the model's floating point (a double has 53).
P == 13

Pow2(n) == 2 ^ n

RECURSIVE BitLen(_)
BitLen(n) == IF n = 0 THEN 0 ELSE 1 + BitLen(n \div 2)

Abs(n) == IF n < 0 THEN -n ELSE n

-----------------------------------------------------------------------------
(* Natural numbers of any size, for the quotients and the powers that do not *)
(* fit an integer of 32 bits: the sequence of the digits to the base 2^15,   *)
(* the lowest first, the highest not 0 (the number 0 is the empty sequence). *)

Base == Pow2(15)

RECURSIVE BTrim(_)
BTrim(a) ==
    IF Len(a) > 0 /\ a[Len(a)] = 0 THEN BTrim(SubSeq(a, 1, Len(a) - 1)) ELSE a

\* An integer 0 <= n < 2^31 as digits, and back.
BFromInt(n) == BTrim(<<n % Base, (n \div Base) % Base, n \div (Base * Base)>>)

RECURSIVE BToIntFrom(_, _)
BToIntFrom(a, i) == IF i > Len(a) THEN 0 ELSE a[i] + Base * BToIntFrom(a, i + 1)

BToInt(a) == BToIntFrom(a, 1)

BDigit(a, i) == IF i <= Len(a) THEN a[i] ELSE 0

\* a + b, from digit i on with the carry c.
RECURSIVE BAddFrom(_, _, _, _)
BAddFrom(a, b, i, c) ==
    IF i > Len(a) /\ i > Len(b) THEN (IF c = 0 THEN <<>> ELSE <<c>>)
    ELSE LET s == BDigit(a, i) + BDigit(b, i) + c
         IN <<s % Base>> \o BAddFrom(a, b, i + 1, s \div Base)

BAdd(a, b) == BAddFrom(a, b, 1, 0)

\* a - b for a >= b, from digit i on with the borrow c.
RECURSIVE BSubFrom(_, _, _, _)
BSubFrom(a, b, i, c) ==
    IF i > Len(a) THEN <<>>
    ELSE LET s == BDigit(a, i) - BDigit(b, i) - c
         IN <<s % Base>> \o BSubFrom(a, b, i + 1, IF s < 0 THEN 1 ELSE 0)

BSub(a, b) == BTrim(BSubFrom(a, b, 1, 0))

\* a * n for 0 <= n < 2^15, from digit i on with the carry c.
RECURSIVE BMulSmallFrom(_, _, _, _)
BMulSmallFrom(a, n, i, c) ==
    IF i > Len(a) THEN (IF c = 0 THEN <<>> ELSE <<c>>)
    ELSE LET p == a[i] * n + c
         IN <<p % Base>> \o BMulSmallFrom(a, n, i + 1, p \div Base)

BMulSmall(a, n) == BTrim(BMulSmallFrom(a, n, 1, 0))

\* a * b, from digit i of b on.
RECURSIVE BMulFrom(_, _, _)
BMulFrom(a, b, i) ==
    IF i > Len(b) THEN <<>>
    ELSE BAdd(BMulSmall(a, b[i]), <<0>> \o BMulFrom(a, b, i + 1))

BMul(a, b) == BTrim(BMulFrom(a, b, 1))

\* floor(a / n) for 0 < n < 2^16: the digits from i down, r the remainder of
\* the digits above.
RECURSIVE BDivSmallFrom(_, _, _, _)
BDivSmallFrom(a, n, i, r) ==
    IF i = 0 THEN <<>>
    ELSE LET cur == r * Base + a[i]
         IN BDivSmallFrom(a, n, i - 1, cur % n) \o <<cur \div n>>

BDivSmall(a, n) == BTrim(BDivSmallFrom(a, n, Len(a), 0))

\* a * 2^bits and floor(a / 2^bits).
BShl(a, bits) ==
    IF a = <<>> THEN <<>>
    ELSE [i \in 1..(bits \div 15) |-> 0] \o BMulSmall(a, Pow2(bits % 15))

BShr(a, bits) ==
    IF Len(a) <= bits \div 15 THEN <<>>
    ELSE BDivSmall(SubSeq(a, bits \div 15 + 1, Len(a)), Pow2(bits % 15))

\* a modulo 2^(15 n): the n lowest digits.
BLow(a, n) == BTrim(SubSeq(a, 1, IF Len(a) < n THEN Len(a) ELSE n))

BBitLen(a) == IF a = <<>> THEN 0 ELSE 15 * (Len(a) - 1) + BitLen(a[Len(a)])

-----------------------------------------------------------------------------
(* Floating point *)

NaN == [k |-> "nan", s |-> 1, m |-> 0, e |-> 0]
Inf(sg) == [k |-> "inf", s |-> sg, m |-> 0, e |-> 0]
Zero == [k |-> "num", s |-> 1, m |-> 0, e |-> 0]

\* Leading-bit position of a double's largest value (below 2^1024).
MaxExp == 1023
\* Exponent of a double's smallest step: every double is a multiple of
\* 2^-1074, and below 2^-1022 (gradual underflow) that step is all the
\* precision it has.
MinExp == -1074

\* n / 2^d (d >= 0) to the nearest integer, ties to even.  With inexact the
\* value rounded is not n but one strictly between n and n + 1.
RoundShift(n, d, inexact) ==
    LET len == BitLen(n)
        q0 == n \div Pow2(d)
        rem == n % Pow2(d)
        half == Pow2(d - 1)
    IN IF d = 0 THEN n
       ELSE IF d > len THEN 0
       ELSE IF d = len THEN (IF n > Pow2(len - 1) \/ inexact THEN 1 ELSE 0)
       ELSE IF rem > half \/ (rem = half /\ (inexact \/ q0 % 2 = 1))
            THEN q0 + 1 ELSE q0

\* The float sg * m * 2^e of a mantissa of P bits, or of fewer bits at the
\* exponent MinExp: past the largest value it is an infinity.
Pack(sg, m, e) ==
    IF e + P - 1 > MaxExp THEN Inf(sg)
    ELSE [k |-> "num", s |-> sg, m |-> m, e |-> e]

\* The float of a mantissa q rounded to P bits: the rounding may have carried
\* it to 2^P.
Carry(sg, q, e) ==
    IF q = Pow2(P) THEN Pack(sg, Pow2(P - 1), e + 1) ELSE Pack(sg, q, e)

\* sg * n * 2^ex for ex >= MinExp to P bits, ties to even.  A value of less
\* than P bits is exact: its mantissa is shifted up to P bits, or as far as
\* the exponent MinExp allows.
RoundP(sg, n, ex, inexact) ==
    IF n = 0 THEN Zero
    ELSE IF BitLen(n) <= P
         THEN LET sh == IF P - BitLen(n) < ex - MinExp THEN P - BitLen(n)
                        ELSE ex - MinExp
              IN Pack(sg, n * Pow2(sh), ex - sh)
    ELSE Carry(sg, RoundShift(n, BitLen(n) - P, inexact), ex + BitLen(n) - P)

\* The float of sg * n * 2^ex (n >= 0; with inexact, of a value strictly
\* between n and n + 1 times 2^ex): rounded as the double is, to a multiple of
\* 2^MinExp, and then to P bits, ties to even; past the largest value it is an
\* infinity.
Round(sg, n, ex, inexact) ==
    RoundP(sg,
           IF ex < MinExp THEN RoundShift(n, MinExp - ex, inexact) ELSE n,
           IF ex < MinExp THEN MinExp ELSE ex,
           inexact /\ ex >= MinExp)

\* The float nearest to sg * n * 2^ex (n >= 0).
Norm(sg, n, ex) == Round(sg, n, ex, FALSE)

\* An integer as a float.
FromInt(n) == Norm(IF n < 0 THEN -1 ELSE 1, Abs(n), 0)

\* 1.0
One == [k |-> "num", s |-> 1, m |-> Pow2(P - 1), e |-> 1 - P]

IsZero(x) == x.k = "num" /\ x.m = 0

FNeg(x) ==
    IF x.k = "nan" THEN NaN
    ELSE IF x.k = "num" /\ x.m = 0 THEN Zero
    ELSE [x EXCEPT !.s = -x.s]

\* x * y.
FMul(x, y) ==
    IF x.k = "nan" \/ y.k = "nan" THEN NaN
    ELSE IF x.k = "inf" \/ y.k = "inf"
         THEN IF IsZero(x) \/ IsZero(y) THEN NaN ELSE Inf(x.s * y.s)
    ELSE IF x.m = 0 \/ y.m = 0 THEN Zero
    ELSE Norm(x.s * y.s, x.m * y.m, x.e + y.e)

\* The quotient D of a division in units of 2^MinExp, rounded as the double
\* is, to P bits: its 30 highest bits are rounded, the bits below them making
\* them inexact.
FDivDouble(sg, D) ==
    LET t == IF BBitLen(D) > 30 THEN BBitLen(D) - 30 ELSE 0
    IN Round(sg, BToInt(BShr(D, t)), MinExp + t, BShl(BShr(D, t), t) # D)

\* The quotient Q in units of half of 2^MinExp, inexact if the division left
\* a remainder, to the double: to the nearest unit of 2^MinExp, ties to even.
FDivHalves(sg, Q, inexact) ==
    FDivDouble(sg, IF Q[1] % 2 = 1 /\ (inexact \/ BDigit(BShr(Q, 1), 1) % 2 = 1)
                   THEN BAdd(BShr(Q, 1), <<1>>)
                   ELSE BShr(Q, 1))

\* sg * xm / dv * 2^(u + P + 1) of two mantissas of P bits: the quotient is
\* taken to P + 1 or P + 2 bits, of unit 2^u, and what is left over makes it
\* inexact.  Where the double's last bit (2^MinExp) lies among these bits or
\* few bits below them, the quotient is taken down to half of 2^MinExp and
\* rounded to the double before it is rounded to P bits.
FDivMantissas(sg, xm, dv, u) ==
    IF u < MinExp \/ u > MinExp + P + 1
    THEN Round(sg, (xm * Pow2(P + 1)) \div dv, u, (xm * Pow2(P + 1)) % dv # 0)
    ELSE LET num == BShl(BFromInt(xm), P + 2 + u - MinExp)
         IN FDivHalves(sg, BDivSmall(num, dv),
                       BMulSmall(BDivSmall(num, dv), dv) # num)

\* x / y of two numpy.float64: a zero divisor gives an infinity or NaN.
FDiv(x, y) ==
    IF x.k = "nan" \/ y.k = "nan" THEN NaN
    ELSE IF x.k = "inf" THEN (IF y.k = "inf" THEN NaN ELSE Inf(x.s * y.s))
    ELSE IF y.k = "inf" THEN Zero
    ELSE IF y.m = 0 THEN (IF x.m = 0 THEN NaN ELSE Inf(x.s))
    ELSE IF x.m = 0 THEN Zero
    ELSE FDivMantissas(x.s * y.s,
                       x.m * Pow2(P - BitLen(x.m)),
                       y.m * Pow2(P - BitLen(y.m)),
                       x.e - y.e + BitLen(x.m) - BitLen(y.m) - P - 1)

\* my * 8 shifted right by d bits, the bits shifted out kept as a sticky bit.
ShiftSticky(my, d) ==
    IF d <= 3 THEN my * Pow2(3 - d)
    ELSE IF d - 3 >= P + 1 THEN 1
    ELSE LET sh == Pow2(d - 3)
             q == my \div sh
         IN IF my % sh # 0 THEN 2 * (q \div 2) + 1 ELSE q

\* x + y.
FAdd(x, y) ==
    IF x.k = "nan" \/ y.k = "nan" THEN NaN
    ELSE IF x.k = "inf"
         THEN (IF y.k = "inf" /\ y.s # x.s THEN NaN ELSE x)
    ELSE IF y.k = "inf" THEN y
    ELSE IF x.m = 0 THEN y
    ELSE IF y.m = 0 THEN x
    ELSE LET big == IF x.e >= y.e THEN x ELSE y
             sml == IF x.e >= y.e THEN y ELSE x
             d == big.e - sml.e
             X == big.m * 8
             Y == ShiftSticky(sml.m, d)
             sum == big.s * X + sml.s * Y
         IN Norm(IF sum < 0 THEN -1 ELSE 1, Abs(sum), big.e - 3)

FSub(x, y) == FAdd(x, FNeg(y))

\* sum(list) of Python: 0 + list[0] + list[1] + ...
RECURSIVE FSumFrom(_, _, _)
FSumFrom(acc, xs, i) ==
    IF i > Len(xs) THEN acc ELSE FSumFrom(FAdd(acc, xs[i]), xs, i + 1)

FSum(xs) == FSumFrom(Zero, xs, 1)

\* x < y; false when either is NaN.
FLt(x, y) ==
    IF x.k = "nan" \/ y.k = "nan" THEN FALSE
    ELSE LET d == FSub(y, x)
         IN IF x.k = "inf" /\ y.k = "inf" THEN x.s < y.s
            ELSE (d.k = "inf" /\ d.s = 1) \/ (d.k = "num" /\ d.m > 0 /\ d.s = 1)

FLe(x, y) == x.k # "nan" /\ y.k # "nan" /\ (x = y \/ FLt(x, y))

\* The decimal literal n/d (1.8 is Ratio(18, 10); n >= 0, d > 0) as the
\* nearest float: n is shifted to 30 bits before the division.
Ratio(n, d) ==
    Round(1, (n * Pow2(30 - BitLen(n))) \div d, BitLen(n) - 30,
          (n * Pow2(30 - BitLen(n))) % d # 0)

Half == Ratio(1, 2)

-----------------------------------------------------------------------------
(* numpy.exp *)

\* ln 2 and 1 / ln 2 in units of 2^-60, to the nearest, as digits to the base
\* 2^15, the lowest first.
Ln2Wide == <<30619, 31289, 1533, 22713>>
InvLn2Wide == <<32279, 22277, 7572, 14506, 1>>

\* floor(a * b / 2^30) of 0 <= a < 2^30 and 0 <= b < 2^31, from the halves of
\* 15 bits of a and b.
MulQ(a, b) ==
    LET ah == a \div Pow2(15)
        al == a % Pow2(15)
        bh == b \div Pow2(15)
        bl == b % Pow2(15)
        t == ((ah * bl) % Pow2(15)) + ((al * bh) % Pow2(15))
             + ((al * bl) \div Pow2(15))
    IN ah * bh + (ah * bl) \div Pow2(15) + (al * bh) \div Pow2(15)
       + t \div Pow2(15)

\* The terms of the series of exp summed for an argument below ln 2.
ExpTerms == 13

\* exp(r / 2^30) in units of 2^-30, 0 <= r < 2^30 ln 2: the series
\* 1 + r (1 + r/2 (1 + r/3 (...))) from term n on.
RECURSIVE ExpQ(_, _)
ExpQ(r, n) ==
    IF n > ExpTerms THEN Pow2(30)
    ELSE Pow2(30) + MulQ(r, ExpQ(r, n + 1)) \div n

\* np.exp(x): exp(x) = 2^k * exp(r) with x = k * ln 2 + r and 0 <= r < ln 2,
\* rounded as Round does; an overflow is an infinity and an underflow is 0,
\* with a warning and no exception.  H and L are the first and the second 15
\* bits of the fraction of |x|, and R(k) is x - k * ln 2 in units of 2^-30.
Exp(x) ==
    IF x.k = "nan" THEN NaN
    ELSE IF x.k = "inf" THEN (IF x.s = 1 THEN Inf(1) ELSE Zero)
    ELSE IF x.m = 0 THEN One
    ELSE IF BitLen(x.m) + x.e - 1 >= 10
         THEN (IF x.s = 1 THEN Inf(1) ELSE Zero)
    ELSE IF BitLen(x.m) + x.e - 1 < -(P + 1) THEN One
    ELSE LET H == IF x.e >= -15 THEN x.m * Pow2(x.e + 15)
                  ELSE IF x.e >= -30 THEN x.m \div Pow2(-15 - x.e)
                  ELSE 0
             L == IF x.e >= -15 THEN 0
                  ELSE IF x.e >= -30
                       THEN (x.m % Pow2(-15 - x.e)) * Pow2(30 + x.e)
                  ELSE x.m \div Pow2(-30 - x.e)
             R(k) == (x.s * H - k * Ln2Wide[4]) * Pow2(15)
                     + x.s * L - k * Ln2Wide[3]
                     - (k * Ln2Wide[2]) \div Pow2(15)
             k0 == (x.s * H) \div Ln2Wide[4]
             k == IF R(k0) < 0 THEN k0 - 1
                  ELSE IF R(k0 + 1) >= 0 THEN k0 + 1
                  ELSE k0
         IN Round(1, ExpQ(R(k), 1), k - 30, TRUE)

-----------------------------------------------------------------------------
(* numpy.power *)

\* The fraction bits of the fixed point of numpy.power (four digits), and 1
\* in it.
WideBits == 60
WideOne == BShl(<<1>>, WideBits)

\* a * b of two fixed-point numbers.
WideMul(a, b) == BShr(BMul(a, b), WideBits)

\* exp(r) for 0 <= r < ln 2, in units of 2^-60: the series of the terms
\* r^n / n!, summed until they vanish; term is term n and sum the terms
\* before it.
RECURSIVE ExpSum(_, _, _, _)
ExpSum(r, n, term, sum) ==
    IF term = <<>> THEN sum
    ELSE ExpSum(r, n + 1, BDivSmall(WideMul(r, term), n + 1), BAdd(sum, term))

\* 1 + z2/3 + z2^2/5 + ...: the terms z2^n / (2 n + 1), summed until they
\* vanish; pw is z2^n and sum the terms before term n.
RECURSIVE LnSum(_, _, _, _)
LnSum(z2, n, pw, sum) ==
    IF pw = <<>> THEN sum
    ELSE LnSum(z2, n + 1, WideMul(z2, pw), BAdd(sum, BDivSmall(pw, 2 * n + 1)))

\* |log2(g)| for z = |g - 1| / (g + 1), 3/4 <= g < 3/2:
\* ln g = 2 z (1 + z^2/3 + z^4/5 + ...).
Log2Frac(z) ==
    WideMul(BMulSmall(WideMul(z, LnSum(WideMul(z, z), 0, WideOne, <<>>)), 2),
            InvLn2Wide)

RECURSIVE OddPart(_)
OddPart(n) == IF n % 2 = 0 THEN OddPart(n \div 2) ELSE n

RECURSIVE IntPow(_, _)
IntPow(b, n) == IF n = 0 THEN 1 ELSE b * IntPow(b, n - 1)

\* A finite float is an integer, an odd integer.
IsInt(y) == y.e >= 0 \/ (-y.e <= P /\ y.m % Pow2(-y.e) = 0)
IsOdd(y) ==
    \/ y.e = 0 /\ y.m % 2 = 1
    \/ y.e < 0 /\ -y.e <= P /\ y.m % Pow2(-y.e) = 0
               /\ (y.m \div Pow2(-y.e)) % 2 = 1

\* sg * 2^k * exp(f ln 2) for w = k + f, 0 <= f < 1, of the magnitude
\* kmag + fr and the sign sw, rounded as Round does.
PowerOfTwo(sg, sw, kmag, fr) ==
    LET k == IF sw > 0 THEN kmag
             ELSE IF fr = <<>> THEN -kmag ELSE -kmag - 1
        f == IF sw > 0 \/ fr = <<>> THEN fr ELSE BSub(WideOne, fr)
    IN Round(sg,
             BToInt(BShr(ExpSum(WideMul(f, Ln2Wide), 0, WideOne, <<>>),
                         WideBits - 30)),
             k - 30, fr # <<>>)

\* sg * 2^w for w of the magnitude W and the sign sw: a w beyond the
\* exponents of a double gives an infinity or 0.
PowerOfLog(sg, sw, W) ==
    IF BBitLen(W) > WideBits + 11 THEN (IF sw > 0 THEN Inf(sg) ELSE Zero)
    ELSE PowerOfTwo(sg, sw, BToInt(BShr(W, WideBits)), BLow(W, 4))

\* sg * |x|^y for log2 |x| of the magnitude L and the sign sL; ytop is the
\* exponent of the leading bit of y.
PowerTimes(sg, y, ytop, sL, L) ==
    IF L = <<>> THEN Norm(sg, 1, 0)
    ELSE IF ytop >= P + 13 THEN (IF y.s * sL > 0 THEN Inf(sg) ELSE Zero)
    ELSE IF ytop <= -(P + 15) THEN Norm(sg, 1, 0)
    ELSE PowerOfLog(sg, y.s * sL,
                    IF y.e >= 0 THEN BShl(BMulSmall(L, y.m), y.e)
                    ELSE BShr(BMulSmall(L, y.m), -y.e))

\* The magnitude of E + log2 g or E - log2 g for lg = |log2 g|: g >= 1 when
\* low.
Log2Of(E, low, lg) ==
    IF E = 0 THEN lg
    ELSE IF (E > 0) = low THEN BAdd(BShl(BFromInt(Abs(E)), WideBits), lg)
    ELSE BSub(BShl(BFromInt(Abs(E)), WideBits), lg)

\* sg * |x|^y for finite x # 0 and y # 0.  A power of at most 31 bits by a
\* positive integer is the exact product, rounded.  Otherwise |x| = 2^E * g
\* with 3/4 <= g < 3/2 and w = y * (E + log2 g) = k + f with 0 <= f < 1
\* give |x|^y = 2^k * exp(f ln 2).
PowerOfNonZero(sg, x, y) ==
    LET len == BitLen(x.m)
        ytop == BitLen(y.m) + y.e - 1
        n == IF y.e >= 0 THEN y.m * Pow2(y.e) ELSE y.m \div Pow2(-y.e)
        o == OddPart(x.m)
        low == 2 * x.m < 3 * Pow2(len - 1)
        E == IF low THEN x.e + len - 1 ELSE x.e + len
        za == IF low THEN x.m - Pow2(len - 1) ELSE Pow2(len) - x.m
        zb == IF low THEN x.m + Pow2(len - 1) ELSE Pow2(len) + x.m
        sL == IF E > 0 THEN 1 ELSE IF E < 0 THEN -1 ELSE IF low THEN 1 ELSE -1
    IN IF y.s = 1 /\ IsInt(y) /\ ytop <= 4 /\ BitLen(o) * n <= 31
       THEN Norm(sg, IntPow(o, n), n * (x.e + BitLen(x.m \div o) - 1))
       ELSE PowerTimes(sg, y, ytop, sL,
                       Log2Of(E, low,
                              Log2Frac(BDivSmall(BShl(BFromInt(za), WideBits),
                                                 zb))))

\* np.power(x, y) of two floats, as the pow of C: 1 for y = 0 and for x = 1
\* whatever the other is; NaN (with a warning) for a negative x and a y that
\* is no integer; the sign of a negative x kept for an odd integer y.
Power(x, y) ==
    IF IsZero(y) \/ x = One THEN One
    ELSE IF x.k = "nan" \/ y.k = "nan" THEN NaN
    ELSE IF y.k = "inf"
         THEN (IF x = FNeg(One) THEN One
               ELSE IF (x.k = "inf" \/ BitLen(x.m) + x.e - 1 >= 0) = (y.s = 1)
                    THEN Inf(1) ELSE Zero)
    ELSE IF x.k = "inf"
         THEN (IF y.s = -1 THEN Zero
               ELSE IF x.s = -1 /\ IsOdd(y) THEN Inf(-1) ELSE Inf(1))
    ELSE IF x.m = 0 THEN (IF y.s = 1 THEN Zero ELSE Inf(1))
    ELSE IF x.s = -1 /\ ~IsInt(y) THEN NaN
    ELSE PowerOfNonZero(IF x.s = -1 /\ IsOdd(y) THEN -1 ELSE 1, x, y)

-----------------------------------------------------------------------------
(* Tables: a DataFrame is a function from its column names to columns, all   *)
(* columns sequences of one length; a row is a function from the column      *)
(* names to the row's values.                                                *)

NRows(df) == IF "a" \in DOMAIN df THEN Len(df["a"]) ELSE 0

\* df.iloc[i] / the row iterrows() yields.
Row(df, i) == [c \in DOMAIN df |-> df[c][i]]

\* df[name] = col.
SetCol(df, name, col) ==
    [c \in DOMAIN df \cup {name} |-> IF c = name THEN col ELSE df[c]]

\* The result of a call: err is "none" or the exception raised, val what was
\* returned.
Ok(v) == [err |-> "none", val |-> v]
Raised(x) == [err |-> x, val |-> <<>>]

-----------------------------------------------------------------------------
(* mnl *)

\* sum([row[los_col_names[i]] * beta[i] for i in range(len(los_col_names))])
WeightedSum(row, los_col_names, beta) ==
    FSum([i \in 1..Len(los_col_names) |-> FMul(row[los_col_names[i]], beta[i])])

\* The exception the comprehension over i raises on a row: at the first i
\* whose column the row lacks (KeyError, row[...] is evaluated first) or that
\* beta lacks (IndexError); "none" when every i passes.
RowError(row, los_col_names, beta) ==
    LET bad == {i \in 1..Len(los_col_names) :
                    los_col_names[i] \notin DOMAIN row \/ i > Len(beta)}
        first == CHOOSE i \in bad : \A i2 \in bad : i <= i2
    IN IF bad = {} THEN "none"
       ELSE IF los_col_names[first] \notin DOMAIN row THEN "KeyError"
       ELSE "IndexError"

\* v = [- sum([...]) for _, row in od_pair.iterrows()]
Utilities(od_pair, los_col_names, beta) ==
    [n \in 1..Len(od_pair) |-> FNeg(WeightedSum(od_pair[n], los_col_names, beta))]

\* p = [np.exp(val) / sum([np.exp(m) for m in v]) for val in v]
Softmax(v) ==
    LET ex == [n \in 1..Len(v) |-> Exp(v[n])]
        total == FSum(ex)
    IN [n \in 1..Len(v) |-> FDiv(ex[n], total)]

\* mnl(od_pair, los_col_names, beta): od_pair is the sequence of the rows of
\* the slice.  No length of beta is checked: weights past the last attribute
\* are never read, a missing weight raises on the first row.
mnl(od_pair, los_col_names, beta) ==
    IF Len(od_pair) > 0 /\ RowError(od_pair[1], los_col_names, beta) # "none"
    THEN Raised(RowError(od_pair[1], los_col_names, beta))
    ELSE Ok(Softmax(Utilities(od_pair, los_col_names, beta)))

-----------------------------------------------------------------------------
(* travel_time *)

\* volumes / capacity: of two Python floats (the values of a row that
\* iterrows() yields from a frame of mixed columns) a zero divisor raises
\* ZeroDivisionError; of numpy.float64 it gives an infinity or NaN.
PyDiv(x, y, numpy) ==
    IF ~numpy /\ IsZero(y) THEN Raised("ZeroDivisionError") ELSE Ok(FDiv(x, y))

\* travel_time without the factor 0.5: the free-flow time at no load.
travel_time_unhalved(volumes, capacity, time, numpy) ==
    LET load == PyDiv(volumes, capacity, numpy)
    IN IF load.err # "none" THEN load
       ELSE Ok(FMul(time, Exp(load.val)))

\* travel_time(volumes, capacity, time), the operands numpy.float64 or not:
\* 0.5 * time * np.exp(volumes / capacity).  The capacity is not checked.
travel_time(volumes, capacity, time, numpy) ==
    LET load == PyDiv(volumes, capacity, numpy)
    IN IF load.err # "none" THEN load
       ELSE Ok(FMul(FMul(Half, time), Exp(load.val)))

-----------------------------------------------------------------------------
(* The network *)

\* nodes['name'], indexed 0..3.
NodeNames == <<"Berlin", "Hamburg", "Frankfurt", "Stuttgart">>

Nodes == 0..(Len(NodeNames) - 1)

\* name_dict = nodes['name'].to_dict()
name_dict == [i \in Nodes |-> NodeNames[i + 1]]

Times(seq, n) == [i \in 1..(n * Len(seq)) |-> seq[((i - 1) % Len(seq)) + 1]]
Repeat(x, n) == [i \in 1..n |-> x]

\* geodesic(l.coords[0], l.coords[-1]).km of the line between two nodes, in
\* tenths of a km.  The points are built from (lon, lat) and geodesic reads
\* them as (lat, lon): these are the distances of the swapped coordinates.
DistTenthKm(x, y) ==
    LET lo == IF x < y THEN x ELSE y
        hi == IF x < y THEN y ELSE x
    IN CASE lo = 0 /\ hi = 1 -> 3942
         [] lo = 0 /\ hi = 2 -> 5852
         [] lo = 0 /\ hi = 3 -> 6208
         [] lo = 1 /\ hi = 2 -> 4048
         [] lo = 1 /\ hi = 3 -> 5318
         [] lo = 2 /\ hi = 3 -> 1569
         [] OTHER -> 0

\* The rail times of the twelve rail rows, in tenths of an hour.
RailTimeTenthH == <<18, 42, 62, 18, 35, 55, 42, 35, 15, 62, 55, 15>>

\* The average car speed in km/h.
CarSpeed == 110

\* The frame before the sort: a, b, mode, dist, time.
RawLinks ==
    LET a == Times(<<0, 0, 0, 1, 1, 1, 2, 2, 2, 3, 3, 3>>, 2)
        b == Times(<<1, 2, 3, 0, 2, 3, 0, 1, 3, 0, 1, 2>>, 2)
        mode == Repeat("rail", 12) \o Repeat("car", 12)
        dist == [i \in 1..Len(a) |-> Ratio(DistTenthKm(a[i], b[i]), 10)]
        time == [i \in 1..Len(a) |->
                    IF mode[i] = "rail" THEN Ratio(RailTimeTenthH[i], 10)
                    ELSE FDiv(dist[i], FromInt(CarSpeed))]
    IN [a |-> a, b |-> b, mode |-> mode, dist |-> dist, time |-> time]

\* Row i sorts before row j by the key columns, rows of equal keys keeping
\* their order (the sort of several columns is stable).
RECURSIVE KeyLess(_, _, _, _, _)
KeyLess(df, by, n, i, j) ==
    IF n > Len(by) THEN i < j
    ELSE IF df[by[n]][i] # df[by[n]][j] THEN df[by[n]][i] < df[by[n]][j]
    ELSE KeyLess(df, by, n + 1, i, j)

\* df.sort_values(by).reset_index(drop=True)
SortValues(df, by) ==
    LET N == NRows(df)
        rank(i) == 1 + Cardinality({j \in 1..N : KeyLess(df, by, 1, j, i)})
        perm == [r \in 1..N |-> CHOOSE i \in 1..N : rank(i) = r]
    IN [c \in DOMAIN df |-> [r \in 1..N |-> df[c][perm[r]]]]

\* The links table without the sort by OD pair.
BuiltLinksUnsorted == RawLinks

\* The links table the construction cell leaves.
BuiltLinks == SortValues(RawLinks, <<"a", "b">>)

-----------------------------------------------------------------------------
(* The demand matrix *)

\* A base demand of a pair of nodes (od_matrix.csv is not part of the
\* notebook: its values are an input).
BaseDemand(x, y) == 1000 * (x + 1) + 100 * (y + 1)

ODPairs == {<<x, y>> \in Nodes \X Nodes : x # y}

\* The matrices read: every pair's base demand times a level, and one pair at
\* most either without a row in the file or with a demand of 0.
MaxLevel == 2

ODKey(x, y) == <<name_dict[x], name_dict[y]>>

FullMatrix(level) ==
    [key \in {ODKey(q[1], q[2]) : q \in ODPairs} |->
        LET q == CHOOSE q \in ODPairs : ODKey(q[1], q[2]) = key
        IN level * BaseDemand(q[1], q[2])]

ODChoices ==
    UNION {
        {FullMatrix(level)}
        \cup {[key \in DOMAIN FullMatrix(level) \ {ODKey(q[1], q[2])} |->
                  FullMatrix(level)[key]] : q \in ODPairs}
        \cup {[FullMatrix(level) EXCEPT ![ODKey(q[1], q[2])] = 0] : q \in ODPairs}
        : level \in 1..MaxLevel}

\* A lookup that takes a pair the matrix has no row for as a demand of 0.
ODLookupOrZero(od, row) ==
    LET key == <<name_dict[row["a"]], name_dict[row["b"]]>>
    IN IF key \in DOMAIN od THEN Ok(FromInt(od[key])) ELSE Ok(Zero)

\* od_matrix.loc[(name_dict[row['a']], name_dict[row['b']]), 'volumes']: a
\* pair the matrix has no row for raises KeyError.
ODLookup(od, row) ==
    LET key == <<name_dict[row["a"]], name_dict[row["b"]]>>
    IN IF key \in DOMAIN od THEN Ok(FromInt(od[key])) ELSE Raised("KeyError")

-----------------------------------------------------------------------------
(* The cells: each computes a column, or raises *)

\* A list comprehension over the rows: the first exception raised ends it,
\* otherwise it is the list of the values.
Collect(rs) ==
    LET bad == {i \in 1..Len(rs) : rs[i].err # "none"}
        first == CHOOSE i \in bad : \A i2 \in bad : i <= i2
    IN IF bad = {} THEN Ok([i \in 1..Len(rs) |-> rs[i].val])
       ELSE Raised(rs[first].err)

\* The rows of the OD pair of row i, in the order of the table.
RECURSIVE GroupFrom(_, _, _)
GroupFrom(df, i, n) ==
    IF n > NRows(df) THEN <<>>
    ELSE (IF df["a"][n] = df["a"][i] /\ df["b"][n] = df["b"][i]
          THEN <<n>> ELSE <<>>) \o GroupFrom(df, i, n + 1)

GroupOf(df, i) == GroupFrom(df, i, 1)

PosIn(seq, x) == CHOOSE n \in 1..Len(seq) : seq[n] = x

\* Element n of the list a call returned, or the exception it raised.
Nth(res, n) == IF res.err # "none" THEN res ELSE Ok(res.val[n])

\* The weight of the time attribute: mnl's default beta=[1.5].
BetaTime == Ratio(15, 10)

\* The weights of the cost attribute the runs of steps 2 and 3 are given (the
\* notebook names none: the weight is an input).
CostWeights == {Ratio(1, 10), Ratio(1, 100)}

\* A probabilities column: mnl of every OD pair on the given attributes and
\* weights.
ProbsCell(df, los_col_names, beta) ==
    Collect([i \in 1..NRows(df) |->
        LET g == GroupOf(df, i)
        IN Nth(mnl([n \in 1..Len(g) |-> Row(df, g[n])], los_col_names, beta),
               PosIn(g, i))])

\* links['cost']: 0.12 * dist for car, 0.7 * np.power(dist, 0.8) for rail.
CostCell(df) ==
    Ok([i \in 1..NRows(df) |->
        IF df["mode"][i] = "car" THEN FMul(Ratio(12, 100), df["dist"][i])
        ELSE FMul(Ratio(7, 10), Power(df["dist"][i], Ratio(8, 10)))])

\* The average car speed in km/h under the speed limit of step 3.
ScenarioSpeed == 100

\* The links of step 3: rail costs 10% less and car times are those of
\* ScenarioSpeed.  The table itself keeps its time and cost.
ScenarioLinks(df) ==
    LET time == [i \in 1..NRows(df) |->
                    IF df["mode"][i] = "car"
                    THEN FDiv(df["dist"][i], FromInt(ScenarioSpeed))
                    ELSE df["time"][i]]
        cost == [i \in 1..NRows(df) |->
                    IF df["mode"][i] = "rail"
                    THEN FMul(df["cost"][i], Ratio(9, 10))
                    ELSE df["cost"][i]]
    IN SetCol(SetCol(df, "time", time), "cost", cost)

\* The volumes column: the demand of the row's OD pair times its probability.
VolumesCell(df, od, probcol) ==
    Collect([i \in 1..NRows(df) |->
        LET d == ODLookup(od, Row(df, i))
        IN IF d.err # "none" THEN d ELSE Ok(FMul(d.val, df[probcol][i]))])

\* links['pkm']: volumes times distance.
PkmCell(df) ==
    Ok([i \in 1..NRows(df) |-> FMul(df["volumes"][i], df["dist"][i])])

\* links['cap']: half the demand of the row's OD pair, for every mode.
CapCell(df, od) ==
    Collect([i \in 1..NRows(df) |->
        LET d == ODLookup(od, Row(df, i))
        IN IF d.err # "none" THEN d ELSE Ok(FDiv(d.val, FromInt(2)))])

\* The congestion function applied to every mode.
IsCongestibleAnyMode(row) == row["mode"] \in {"car", "rail"}

\* The mode the congestion function is applied to.
IsCongestible(row) == row["mode"] = "car"

\* links['time_2']: travel_time of the row if its mode is car, else its time.
Time2Cell(df, volcol, capcol) ==
    Collect([i \in 1..NRows(df) |->
        LET row == Row(df, i)
        IN IF IsCongestible(row)
           THEN travel_time(row[volcol], row[capcol], row["time"], FALSE)
           ELSE Ok(row["time"])])

\* The scenario's capacities written over the column cap.
ScenarioCapColumnInPlace == "cap"

\* The column the lorry scenario's capacities are written to.
ScenarioCapColumn == "cap_2"

\* links['cap_2']: nine tenths of cap for car, cap for the other modes.
Cap2Cell(df) ==
    Ok([i \in 1..NRows(df) |->
        IF df["mode"][i] = "car" THEN FMul(df["cap"][i], Ratio(9, 10))
        ELSE df["cap"][i]])

\* links.loc[links['mode']==mode, col].mean(): NaN values are skipped.
RECURSIVE Picked(_, _, _, _)
Picked(df, mode, col, n) ==
    IF n > NRows(df) THEN <<>>
    ELSE (IF df["mode"][n] = mode /\ df[col][n].k # "nan"
          THEN <<df[col][n]>> ELSE <<>>) \o Picked(df, mode, col, n + 1)

ModeMean(df, mode, col) ==
    LET xs == Picked(df, mode, col, 1)
    IN IF Len(xs) = 0 THEN NaN ELSE FDiv(FSum(xs), FromInt(Len(xs)))

-----------------------------------------------------------------------------
(* The notebook run *)

VARIABLES
    pc,         \* the cell, or the step of the loop body, to run next
    j,          \* the loop variable of the iteration
    links,      \* the links table
    od_matrix,  \* the demand matrix read from the file
    printed,    \* the lines the iteration has printed
    error,      \* the exception that ended the run, if any
    call,       \* a single call of mnl or travel_time and its result
    weights     \* the weights of time and cost of steps 2 and 3

vars == <<pc, j, links, od_matrix, printed, error, call, weights>>

\* The rounds of the iteration.
Rounds == 10

NoError == [cell |-> "none", exc |-> "none"]
NoCall == [fn |-> "none"]

\* The order of the cells.
NextCell(cell) ==
    CASE cell = "build" -> "probs_1"
      [] cell = "probs_1" -> "cost"
      [] cell = "cost" -> "probs_2"
      [] cell = "probs_2" -> "probs_3"
      [] cell = "probs_3" -> "read_od"
      [] cell = "read_od" -> "volumes"
      [] cell = "volumes" -> "pkm"
      [] cell = "pkm" -> "cap"
      [] cell = "cap" -> "time_2"
      [] cell = "time_2" -> "init_iter"
      [] cell = "init_iter" -> "probs"
      [] cell = "cap_2" -> "done"

\* The loop body with the congested times computed before the volumes.
LoopNextTimesFirst(step) ==
    CASE step = "probs" -> "times"
      [] step = "times" -> "vols"
      [] step = "vols" -> "print"

\* The order of the steps of the loop body.
LoopNext(step) ==
    CASE step = "probs" -> "vols"
      [] step = "vols" -> "times"
      [] step = "times" -> "print"

LoopSteps == {"probs", "vols", "times", "print"}

\* A loop that stops one round early.
LoopContinuesOneLess(jj) == jj + 2 < Rounds

\* for j in range(10): another round follows round jj.
LoopContinues(jj) == jj + 1 < Rounds

\* A cell that assigns one column: the column is assigned when the right-hand
\* side was computed, and the run ends with the table as it was when it raised.
RunCell(next, col, res) ==
    IF res.err = "none"
    THEN /\ links' = SetCol(links, col, res.val)
         /\ pc' = next
         /\ UNCHANGED error
    ELSE /\ pc' = "error"
         /\ error' = [cell |-> pc, exc |-> res.err]
         /\ UNCHANGED links

Init ==
    /\ pc = "build"
    /\ j = 0
    /\ links = <<>>
    /\ od_matrix = <<>>
    /\ printed = <<>>
    /\ error = NoError
    /\ call = NoCall
    /\ weights = <<BetaTime>>

BuildLinks ==
    /\ pc = "build"
    /\ links' = BuiltLinks
    /\ pc' = NextCell(pc)
    /\ UNCHANGED <<j, od_matrix, printed, error, call, weights>>

Probs1 ==
    /\ pc = "probs_1"
    /\ RunCell(NextCell(pc), "probs_1", ProbsCell(links, <<"time">>, <<BetaTime>>))
    /\ UNCHANGED <<j, od_matrix, printed, call, weights>>

Cost ==
    /\ pc = "cost"
    /\ RunCell(NextCell(pc), "cost", CostCell(links))
    /\ UNCHANGED <<j, od_matrix, printed, call, weights>>

Probs2 ==
    /\ pc = "probs_2"
    /\ \E c \in CostWeights :
          /\ weights' = <<BetaTime, c>>
          /\ RunCell(NextCell(pc), "probs_2",
                     ProbsCell(links, <<"time", "cost">>, <<BetaTime, c>>))
    /\ UNCHANGED <<j, od_matrix, printed, call>>

Probs3 ==
    /\ pc = "probs_3"
    /\ RunCell(NextCell(pc), "probs_3",
               ProbsCell(ScenarioLinks(links), <<"time", "cost">>, weights))
    /\ UNCHANGED <<j, od_matrix, printed, call, weights>>

ReadOD ==
    /\ pc = "read_od"
    /\ od_matrix' \in ODChoices
    /\ pc' = NextCell(pc)
    /\ UNCHANGED <<j, links, printed, error, call, weights>>

Volumes ==
    /\ pc = "volumes"
    /\ RunCell(NextCell(pc), "volumes", VolumesCell(links, od_matrix, "probs_1"))
    /\ UNCHANGED <<j, od_matrix, printed, call, weights>>

Pkm ==
    /\ pc = "pkm"
    /\ RunCell(NextCell(pc), "pkm", PkmCell(links))
    /\ UNCHANGED <<j, od_matrix, printed, call, weights>>

Cap ==
    /\ pc = "cap"
    /\ RunCell(NextCell(pc), "cap", CapCell(links, od_matrix))
    /\ UNCHANGED <<j, od_matrix, printed, call, weights>>

Time2 ==
    /\ pc = "time_2"
    /\ RunCell(NextCell(pc), "time_2", Time2Cell(links, "volumes", "cap"))
    /\ UNCHANGED <<j, od_matrix, printed, call, weights>>

InitIter ==
    /\ pc = "init_iter"
    /\ links' = SetCol(SetCol(links, "volumes_2", Repeat(NaN, NRows(links))),
                       "probs_4", Repeat(NaN, NRows(links)))
    /\ pc' = NextCell(pc)
    /\ j' = 0
    /\ UNCHANGED <<od_matrix, printed, error, call, weights>>

IterProbs ==
    /\ pc = "probs"
    /\ RunCell(LoopNext(pc), "probs_4", ProbsCell(links, <<"time_2">>, <<BetaTime>>))
    /\ UNCHANGED <<j, od_matrix, printed, call, weights>>

IterVolumes ==
    /\ pc = "vols"
    /\ RunCell(LoopNext(pc), "volumes_2", VolumesCell(links, od_matrix, "probs_4"))
    /\ UNCHANGED <<j, od_matrix, printed, call, weights>>

IterTimes ==
    /\ pc = "times"
    /\ RunCell(LoopNext(pc), "time_2", Time2Cell(links, "volumes_2", "cap"))
    /\ UNCHANGED <<j, od_matrix, printed, call, weights>>

IterPrint ==
    /\ pc = "print"
    /\ printed' = Append(printed, <<j, ModeMean(links, "car", "probs_4"),
                                    ModeMean(links, "rail", "probs_4")>>)
    /\ IF LoopContinues(j)
       THEN j' = j + 1 /\ pc' = "probs"
       ELSE j' = j /\ pc' = "cap_2"
    /\ UNCHANGED <<links, od_matrix, error, call, weights>>

Cap2 ==
    /\ pc = "cap_2"
    /\ RunCell(NextCell(pc), ScenarioCapColumn, Cap2Cell(links))
    /\ UNCHANGED <<j, od_matrix, printed, call, weights>>

Next ==
    \/ BuildLinks
    \/ Probs1
    \/ Cost
    \/ Probs2
    \/ Probs3
    \/ ReadOD
    \/ Volumes
    \/ Pkm
    \/ Cap
    \/ Time2
    \/ InitIter
    \/ IterProbs
    \/ IterVolumes
    \/ IterTimes
    \/ IterPrint
    \/ Cap2

Spec == Init /\ [][Next]_vars

-----------------------------------------------------------------------------
(* Single calls of mnl and travel_time on inputs drawn from bounded sets *)

\* The longest OD group and the longest weight list of a call.
MaxGroup == 2
MaxBeta == 3

SeqsUpTo(S, n) == UNION {[1..len -> S] : len \in 0..n}

TimeVals == {FromInt(2), FromInt(3), FromInt(1000)}
CostVals == {Zero, FromInt(1)}
GroupRows == {[time |-> t, cost |-> c] : t \in TimeVals, c \in CostVals}
LosChoices == {<<"time">>, <<"time", "cost">>}
BetaVals == {Ratio(15, 10), Ratio(1, 10), FNeg(Ratio(15, 10))}

VolumeVals == {Zero, FromInt(50), FromInt(100), FromInt(100000)}
CapacityVals == {FromInt(-50), Zero, FromInt(50), FromInt(100)}
FreeFlowVals == {Zero, FromInt(2), Ratio(36, 10)}

MnlCalls ==
    {[fn |-> "mnl",
      args |-> [od_pair |-> g, los_col_names |-> los, beta |-> beta],
      done |-> FALSE, res |-> Raised("pending")] :
        g \in SeqsUpTo(GroupRows, MaxGroup), los \in LosChoices,
        beta \in SeqsUpTo(BetaVals, MaxBeta)}

TravelTimeCalls ==
    {[fn |-> "travel_time",
      args |-> [volumes |-> v, capacity |-> c, time |-> t, numpy |-> np],
      done |-> FALSE, res |-> Raised("pending")] :
        v \in VolumeVals, c \in CapacityVals, t \in FreeFlowVals,
        np \in BOOLEAN}

InitFn ==
    /\ pc = "build"
    /\ j = 0
    /\ links = <<>>
    /\ od_matrix = <<>>
    /\ printed = <<>>
    /\ error = NoError
    /\ call \in MnlCalls \cup TravelTimeCalls
    /\ weights = <<BetaTime>>

CallMnl ==
    /\ call.fn = "mnl"
    /\ ~call.done
    /\ call' = [call EXCEPT !.done = TRUE,
                            !.res = mnl(call.args.od_pair,
                                        call.args.los_col_names,
                                        call.args.beta)]
    /\ UNCHANGED <<pc, j, links, od_matrix, printed, error, weights>>

CallTravelTime ==
    /\ call.fn = "travel_time"
    /\ ~call.done
    /\ call' = [call EXCEPT !.done = TRUE,
                            !.res = travel_time(call.args.volumes,
                                                call.args.capacity,
                                                call.args.time,
                                                call.args.numpy)]
    /\ UNCHANGED <<pc, j, links, od_matrix, printed, error, weights>>

NextFn == CallMnl \/ CallTravelTime

SpecFn == InitFn /\ [][NextFn]_vars

-----------------------------------------------------------------------------
(* Claims about mnl and travel_time, checked under SpecFn *)

FAbs(x) == IF x.k = "nan" THEN NaN ELSE [x EXCEPT !.s = 1]

CallUtilities ==
    Utilities(call.args.od_pair, call.args.los_col_names, call.args.beta)

\* The sum of the probabilities is 1 up to one rounding per link.
SumsToOne(p) ==
    FLe(FAbs(FSub(FSum(p), One)), Norm(1, Len(p), 1 - P))

\* One probability per link, in the order of the links: a link of smaller
\* utility than another never has the larger probability.
OnePerLinkInOrder(p) ==
    /\ Len(p) = Len(call.args.od_pair)
    /\ \A n1, n2 \in 1..Len(p) :
          FLt(CallUtilities[n1], CallUtilities[n2]) => FLe(p[n1], p[n2])

\* C3, as stated: for every non-empty OD group and every list of finite
\* attribute values and weights (one weight per attribute), mnl returns one
\* probability per link, in the order of the links, summing to 1, each
\* strictly between 0 and 1.
C3_StrictlyInside ==
    (/\ call.fn = "mnl" /\ call.done
     /\ Len(call.args.od_pair) > 0
     /\ Len(call.args.beta) = Len(call.args.los_col_names))
    => /\ call.res.err = "none"
       /\ OnePerLinkInOrder(call.res.val)
       /\ SumsToOne(call.res.val)
       /\ \A n \in 1..Len(call.res.val) :
             FLt(Zero, call.res.val[n]) /\ FLt(call.res.val[n], One)

\* C6, as stated: travel_time called with a capacity that is zero or negative
\* raises; it never returns a travel time.
C6_NonPositiveCapacityRaises ==
    (/\ call.fn = "travel_time" /\ call.done
     /\ FLe(call.args.capacity, Zero))
    => call.res.err # "none"

\* C7, as stated: mnl called on a non-empty group with a weight list whose
\* length differs from that of the attribute list raises; it never returns
\* probabilities.
C7_LengthMismatchRaises ==
    (/\ call.fn = "mnl" /\ call.done
     /\ Len(call.args.od_pair) > 0
     /\ Len(call.args.beta) # Len(call.args.los_col_names))
    => call.res.err # "none"

\* Half of a float, exactly: its exponent lowered by one.
ExactHalf(x) == IF x.k = "num" /\ x.m # 0 THEN [x EXCEPT !.e = @ - 1] ELSE x

\* C10: for every capacity C > 0 and free-flow time T >= 0, travel_time at
\* volume 0 returns exactly half of T, and for T > 0 a larger volume never
\* gives a smaller time.
C10_HalfAtZeroAndMonotone ==
    (/\ call.fn = "travel_time" /\ call.done
     /\ FLt(Zero, call.args.capacity)
     /\ FLe(Zero, call.args.time))
    => /\ call.res.err = "none"
       /\ IsZero(call.args.volumes) => call.res.val = ExactHalf(call.args.time)
       /\ FLt(Zero, call.args.time) =>
             \A v2 \in VolumeVals :
                FLe(call.args.volumes, v2) =>
                   FLe(call.res.val,
                       travel_time(v2, call.args.capacity, call.args.time,
                                   call.args.numpy).val)

\* A call at volume 0, positive capacity and positive free-flow time returned
\* half the free-flow time, less than what a larger volume gives.
C10_Witness ==
    /\ call.fn = "travel_time" /\ call.done
    /\ IsZero(call.args.volumes)
    /\ FLt(Zero, call.args.capacity)
    /\ FLt(Zero, call.args.time)
    /\ call.res.err = "none"
    /\ call.res.val = ExactHalf(call.args.time)
    /\ FLt(call.res.val, call.args.time)
    /\ \E v2 \in VolumeVals :
          FLt(call.res.val,
              travel_time(v2, call.args.capacity, call.args.time,
                          call.args.numpy).val)

-----------------------------------------------------------------------------
(* Claims about the notebook run, checked under Spec *)

Built == pc # "build"
HasCol(c) == Built /\ c \in DOMAIN links

\* The state a round leaves: the volumes of the probabilities and the times
\* of the volumes.
RoundState(df) ==
    /\ df["volumes_2"] = VolumesCell(df, od_matrix, "probs_4").val
    /\ df["time_2"] = Time2Cell(df, "volumes_2", "cap").val

\* The rounds counted: inside the loop j rounds are complete and printed, and
\* after it Rounds are, the links being as the last round left them.
C1_Counts(cell, jj, lines, df) ==
    /\ cell \in LoopSteps => jj \in 0..(Rounds - 1) /\ Len(lines) = jj
    /\ cell \in {"cap_2", "done"} =>
          /\ Len(lines) = Rounds
          /\ \A n \in 1..Rounds : lines[n][1] = n - 1
          /\ jj = Rounds - 1
          /\ RoundState(df)

\* A step of the loop body: none raises, the three assignments keep the round
\* and move on in the body, and the print ends the round, followed by another
\* round unless it was round Rounds - 1, which ends the loop.
C1_Step ==
    /\ pc' # "error"
    /\ pc # "print" => (pc' \in LoopSteps /\ j' = j /\ printed' = printed)
    /\ pc = "print" =>
          /\ Len(printed') = Len(printed) + 1
          /\ links' = links
          /\ IF j < Rounds - 1 THEN pc' = "probs" /\ j' = j + 1
                               ELSE pc' = "cap_2" /\ j' = j

\* C1: once entered, the iteration runs exactly Rounds rounds, whatever the
\* values: no step ends it early or extends it, one line is printed per
\* round, and it leaves the links as the last round left them.
C1_ExactlyTenRounds ==
    [][/\ C1_Counts(pc', j', printed', links')
       /\ pc \in LoopSteps => C1_Step]_vars

\* The iteration has ended, its tenth round having changed the probabilities
\* of the ninth.
C1_Witness ==
    /\ pc = "done"
    /\ Len(printed) = Rounds
    /\ printed[Rounds][2] # printed[Rounds - 1][2]

\* C2: in every round the probabilities are computed from the times the round
\* before left (the initial time_2 in the first round), then the volumes from
\* these probabilities, then the times from these volumes.
C2_RoundOrder ==
    [][/\ (pc = "probs" /\ pc' # "error") =>
             /\ links'["probs_4"] = ProbsCell(links, <<"time_2">>, <<BetaTime>>).val
             /\ links'["time_2"] = links["time_2"]
             /\ links'["volumes_2"] = links["volumes_2"]
       /\ (pc \in LoopSteps /\ pc' = "print") =>
             /\ links'["probs_4"] = links["probs_4"]
             /\ RoundState(links')
       /\ (pc = "print" /\ pc' = "probs") => links' = links]_vars

\* A round has ended whose probabilities differ from those of step 1, and
\* whose volumes and times are those of its probabilities.
C2_Witness ==
    /\ pc = "print"
    /\ j = 1
    /\ links["probs_4"] # links["probs_1"]
    /\ RoundState(links)

\* C4: whenever the table has a time_2, that of every rail link is the
\* link's free-flow time.
C4_RailKeepsFreeFlowTime ==
    HasCol("time_2") =>
        \A i \in 1..NRows(links) :
            links["mode"][i] = "rail" => links["time_2"][i] = links["time"][i]

\* After a round, a car link's time_2 differs from its free-flow time and the
\* rail link of the same OD pair carries a volume.
C4_Witness ==
    /\ pc = "print"
    /\ \E i \in 1..NRows(links) :
          /\ links["mode"][i] = "rail"
          /\ links["mode"][i + 1] = "car"
          /\ FLt(Zero, links["volumes_2"][i])
          /\ links["time_2"][i] = links["time"][i]
          /\ links["time_2"][i + 1] # links["time"][i + 1]

BaseColumns == {"a", "b", "mode", "dist", "time"}
DerivedColumns ==
    {"probs_1", "probs_2", "probs_3", "probs_4", "volumes", "volumes_2", "pkm",
     "time_2", "cap_2"}

\* The attributes of a link that are added once after the construction.
AddedOnce == {"cost", "cap"}

\* C5: once the links are built no step changes a, b, mode, dist or time, nor
\* cost or cap once they are there; a step adds or changes derived columns
\* only.
C5_BaseColumnsKept ==
    [][Built =>
          /\ \A c \in BaseColumns : links'[c] = links[c]
          /\ DOMAIN links \subseteq DOMAIN links'
          /\ \A c \in AddedOnce \cap DOMAIN links : links'[c] = links[c]
          /\ \A c \in DOMAIN links' :
                (c \notin DOMAIN links \/ links'[c] # links[c])
                    => c \in DerivedColumns \cup AddedOnce]_vars

\* The lorry scenario has run: cap_2 is below cap on a car link, the
\* iteration has moved time_2 away from time, and the scenario of step 3 has
\* moved probs_3 away from probs_2 with the table's time and cost as the
\* construction and step 2 left them.
C5_Witness ==
    /\ pc = "done"
    /\ links["time"] = BuiltLinks["time"]
    /\ links["cost"] = CostCell(BuiltLinks).val
    /\ links["probs_3"] # links["probs_2"]
    /\ \E i \in 1..NRows(links) :
          /\ FLt(links["cap_2"][i], links["cap"][i])
          /\ links["time_2"][i] # links["time"][i]

\* Some link's OD pair has no row in the demand matrix read.
DemandMissing ==
    /\ pc \notin {"build", "probs_1", "cost", "probs_2", "probs_3", "read_od"}
    /\ \E i \in 1..NRows(links) :
          ODKey(links["a"][i], links["b"][i]) \notin DOMAIN od_matrix

\* C8: when a link's OD pair has no row in the demand matrix, the volumes cell
\* raises KeyError and ends the run, and so would the cap cell; the table gets
\* no volumes and no cap column, partial or whole.
C8_MissingDemandRaises ==
    DemandMissing =>
        /\ pc \in {"volumes", "error"}
        /\ pc = "error" => error = [cell |-> "volumes", exc |-> "KeyError"]
        /\ VolumesCell(links, od_matrix, "probs_1").err = "KeyError"
        /\ CapCell(links, od_matrix).err = "KeyError"
        /\ DOMAIN links = BaseColumns \cup {"probs_1", "cost", "probs_2", "probs_3"}

\* The run was ended by the KeyError of a missing demand.
C8_Witness ==
    /\ DemandMissing
    /\ pc = "error"
    /\ error.exc = "KeyError"

\* The rows of the links table from x to y by mode m.
RowsOf(x, y, m) ==
    {i \in 1..NRows(links) :
        links["a"][i] = x /\ links["b"][i] = y /\ links["mode"][i] = m}

\* C9: for every two distinct nodes and every mode the table has exactly one
\* row per direction, none from a node to itself, and rows 2k-1 and 2k
\* (counted from 1) are the two modes of one OD pair.
C9_TwoRowsPerPair ==
    Built =>
        /\ \A x, y \in Nodes : \A m \in {"car", "rail"} :
              Cardinality(RowsOf(x, y, m)) = (IF x = y THEN 0 ELSE 1)
        /\ NRows(links) = 2 * Cardinality(ODPairs)
        /\ \A n \in 1..Cardinality(ODPairs) :
              /\ links["a"][2 * n - 1] = links["a"][2 * n]
              /\ links["b"][2 * n - 1] = links["b"][2 * n]
              /\ {links["mode"][2 * n - 1], links["mode"][2 * n]} = {"car", "rail"}

\* The table is built and sorted: the first two rows are the two modes from
\* node 0 to node 1 and the last two those from node 3 to node 2.
C9_Witness ==
    /\ pc = "probs_1"
    /\ <<links["a"][1], links["b"][1], links["a"][2], links["b"][2]>> = <<0, 1, 0, 1>>
    /\ <<links["a"][23], links["b"][23], links["a"][24], links["b"][24]>> = <<3, 2, 3, 2>>
=============================================================================
